---- MODULE Spec2Model ----
(***************************************************************************)
(* Model of the DW6 workflow state engine (src/src/dw6/state_manager.py    *)
(* and the git collaborator src/src/dw6/git_handler.py).                   *)
(*                                                                         *)
(* Text.  A Python str is a sequence of atoms.  An atom is one character   *)
(* (" ", ":", "#", "-", "[", "]", a digit, the newline "\n") or a run of   *)
(* letters that the program only ever handles as a whole ("CurrentStage",  *)
(* "Coder", "ID").  Files hold text; lists of lines are sequences of text. *)
(***************************************************************************)
EXTENDS Integers, Sequences, FiniteSets, TLC

\* ------------------------------------------------------------------ bounds
MaxCommits == 1
MaxPointer == 1
MaxLog == 2

\* ------------------------------------------------------- Python str methods
NL == "\n"
SP == " "

\* Python None, kept apart from every str
None == <<"<None>">>

\* the str made of the one word or character w
Str(w) == <<w>>

RECURSIVE LStrip(_)
LStrip(s) == IF s # <<>> /\ Head(s) \in {SP, NL} THEN LStrip(Tail(s)) ELSE s

RECURSIVE RStrip(_)
RStrip(s) ==
    IF s # <<>> /\ s[Len(s)] \in {SP, NL} THEN RStrip(SubSeq(s, 1, Len(s) - 1)) ELSE s

Strip(s) == RStrip(LStrip(s))

StartsWith(s, p) == Len(p) <= Len(s) /\ SubSeq(s, 1, Len(p)) = p

\* str.find(sub) + 1: the position of the first occurrence of sub in s, 0 if none
RECURSIVE FindFrom(_, _, _)
FindFrom(s, sub, i) ==
    IF i + Len(sub) - 1 > Len(s) THEN 0
    ELSE IF \A j \in 1..Len(sub) : s[i + j - 1] = sub[j] THEN i
    ELSE FindFrom(s, sub, i + 1)

Find(s, sub) == FindFrom(s, sub, 1)

\* sub in s
Contains(s, sub) == Find(s, sub) # 0

\* s.split(sep, 1)[0] and s.split(sep, 1)[1] for an s that contains sep
SplitBefore(s, sep) == SubSeq(s, 1, Find(s, sep) - 1)
SplitAfter(s, sep) == SubSeq(s, Find(s, sep) + Len(sep), Len(s))

\* s.replace(old, new, 1)
ReplaceFirst(s, old, new) ==
    IF ~Contains(s, old) THEN s
    ELSE SplitBefore(s, old) \o new \o SplitAfter(s, old)

\* text.splitlines()
RECURSIVE SplitLines(_)
SplitLines(text) ==
    LET i == Find(text, <<NL>>)
    IN  IF text = <<>> THEN <<>>
        ELSE IF i = 0 THEN <<text>>
        ELSE <<SubSeq(text, 1, i - 1)>> \o SplitLines(SubSeq(text, i + 1, Len(text)))

\* "\n".join(lines)
RECURSIVE JoinLines(_)
JoinLines(lines) ==
    IF lines = <<>> THEN <<>>
    ELSE IF Len(lines) = 1 THEN lines[1]
    ELSE lines[1] \o <<NL>> \o JoinLines(Tail(lines))

Digit == <<"0", "1", "2", "3", "4", "5", "6", "7", "8", "9">>

\* str(n) for n >= 0
RECURSIVE IntToStr(_)
IntToStr(n) ==
    IF n < 10 THEN <<Digit[n + 1]>> ELSE IntToStr(n \div 10) \o <<Digit[(n % 10) + 1]>>

IsDigits(s) == s # <<>> /\ \A i \in 1..Len(s) : \E d \in 1..10 : Digit[d] = s[i]

DigitValue(c) == (CHOOSE d \in 1..10 : Digit[d] = c) - 1

\* int(s) for an s of digits (anything else raises ValueError, see IsDigits)
RECURSIVE StrToInt(_)
StrToInt(s) ==
    IF Len(s) = 1 THEN DigitValue(s[1])
    ELSE 10 * StrToInt(SubSeq(s, 1, Len(s) - 1)) + DigitValue(s[Len(s)])

\* ------------------------------------------------------------ Python dict
EmptyDict == [k \in {} |-> None]

DictSet(d, k, v) == [x \in (DOMAIN d) \cup {k} |-> IF x = k THEN v ELSE d[x]]

\* --------------------------------------------------- module-level constants
STAGES == <<Str("Engineer"), Str("Researcher"), Str("Coder"), Str("Validator"), Str("Deployer")>>

StageSet == {STAGES[i] : i \in 1..Len(STAGES)}

\* STAGES.index(stage), counted from 1
StageIndex(stage) == CHOOSE i \in 1..Len(STAGES) : STAGES[i] = stage

DELIVERABLE_PATHS ==
    [s \in StageSet |->
        CASE s = Str("Engineer") -> Str("deliverables/engineering")
          [] s = Str("Coder") -> Str("deliverables/coding")
          [] s = Str("Researcher") -> Str("deliverables/Researcher")
          [] s = Str("Validator") -> Str("deliverables/testing")
          [] s = Str("Deployer") -> Str("deliverables/deployment")]

K_CurrentStage == Str("CurrentStage")
K_RequirementPointer == Str("RequirementPointer")
K_LastCommitSHA == Str("LastCommitSHA")

\* ---------------------------------------------------------- WorkflowState
\* one iteration of the loop of WorkflowState._parse
ParseLine(line, data) ==
    LET stripped == Strip(line)
        cleaned_line == IF StartsWith(stripped, <<"-">>) THEN LStrip(Tail(stripped))
                        ELSE stripped
    IN  IF Contains(cleaned_line, <<":">>)
        THEN LET key == SplitBefore(cleaned_line, <<":">>)
                 value_part == SplitAfter(cleaned_line, <<":">>)
                 value == Strip(IF Contains(value_part, <<"#">>)
                                THEN SplitBefore(value_part, <<"#">>)
                                ELSE value_part)
             IN  DictSet(data, Strip(key), value)
        ELSE data

RECURSIVE ParseFrom(_, _)
ParseFrom(lines, data) ==
    IF lines = <<>> THEN data ELSE ParseFrom(Tail(lines), ParseLine(lines[1], data))

\* WorkflowState._parse: the mapping read off the line sequence
WS_parse(lines) == ParseFrom(lines, EmptyDict)

\* WorkflowState.__init__ for an existing master file: [lines, data]
WS_load(text) == [lines |-> SplitLines(text), data |-> WS_parse(SplitLines(text))]

\* WorkflowState.get(key) with default None
WS_get(st, key) == IF key \in DOMAIN st.data THEN st.data[key] ELSE None

\* the index of the line WorkflowState.set rewrites, 0 if it appends
SetLineIndex(lines, key) ==
    LET hits == {i \in 1..Len(lines) : StartsWith(Strip(lines[i]), key \o <<":">>)}
    IN  IF hits = {} THEN 0 ELSE CHOOSE i \in hits : \A j \in hits : i <= j

\* a set that puts the old comment back without its "#"
WS_set_DropsHash(st, key, value) ==
    LET i == SetLineIndex(st.lines, key)
        comment == IF i # 0 /\ Contains(st.lines[i], <<"#">>)
                   THEN <<SP>> \o Strip(SplitAfter(st.lines[i], <<"#">>))
                   ELSE <<>>
    IN  [data |-> DictSet(st.data, key, value),
         lines |-> IF i # 0
                   THEN [st.lines EXCEPT ![i] = key \o <<":", SP>> \o value \o comment]
                   ELSE Append(st.lines, key \o <<":", SP>> \o value)]

\* WorkflowState.set(key, value), value already a str
WS_set(st, key, value) ==
    LET i == SetLineIndex(st.lines, key)
        comment == IF i # 0 /\ Contains(st.lines[i], <<"#">>)
                   THEN <<SP, "#">> \o Strip(SplitAfter(st.lines[i], <<"#">>))
                   ELSE <<>>
    IN  [data |-> DictSet(st.data, key, value),
         lines |-> IF i # 0
                   THEN [st.lines EXCEPT ![i] = key \o <<":", SP>> \o value \o comment]
                   ELSE Append(st.lines, key \o <<":", SP>> \o value)]

\* a save that leaves the last line without its newline
WS_save_NoNewline(st) == JoinLines(st.lines)

\* the text WorkflowState.save writes to the master file
WS_save(st) == JoinLines(st.lines) \o <<NL>>

\* ------------------------------------------------------------ git_handler
\* the hash of commit number i; a full hash is longer than one character
Sha(i) == <<"c">> \o IntToStr(i)

\* a hash that is no commit of the local history (a tag object, a foreign commit)
OtherSha == <<"f", "f">>

\* is_working_directory_clean(): "clean" for True, "dirty" for False, "exit" for
\* the sys.exit(1) after a failed `git status`
is_working_directory_clean(status) ==
    IF ~status.ok THEN "exit"
    ELSE IF Strip(status.out) = <<>> THEN "clean" ELSE "dirty"

\* get_latest_commit_hash() / get_current_commit_sha(): the work is done on master
get_latest_commit_hash(h) == Sha(h)

\* the loop of get_remote_tags_with_commits over the lines of `git ls-remote --tags`;
\* a line is [sha, tag, peeled], peeled for a "refs/tags/<tag>^{}" line
RECURSIVE RemoteTagLoop(_, _)
RemoteTagLoop(out, tags) ==
    IF out = <<>> THEN tags
    ELSE RemoteTagLoop(Tail(out),
                       IF ~out[1].peeled THEN DictSet(tags, out[1].tag, out[1].sha)
                       ELSE tags)

\* get_remote_tags_with_commits(): a dict tag name -> hash
get_remote_tags_with_commits(ls) ==
    IF ls.rc # 0 THEN EmptyDict
    ELSE IF ls.out = <<>> THEN EmptyDict
    ELSE RemoteTagLoop(ls.out, EmptyDict)

\* the split of an empty output, [""], returned without the filter
get_local_tags_for_commit_NoFilter(lt) ==
    IF lt.ok THEN (IF lt.tags = <<>> THEN << <<>> >> ELSE lt.tags) ELSE <<>>

\* get_local_tags_for_commit(commit): the answer of `git tag --points-at`, [] for a
\* CalledProcessError
get_local_tags_for_commit(lt) == IF lt.ok THEN lt.tags ELSE <<>>

\* get_commit_stats(): the statistics between the recorded and the current commit
get_commit_stats(recorded, current, shortstat) ==
    IF recorded = None THEN None
    ELSE IF recorded = current
         THEN [files_changed |-> 0, insertions |-> 0, deletions |-> 0]
         ELSE [files_changed |-> shortstat.files_changed,
               insertions |-> shortstat.insertions,
               deletions |-> shortstat.deletions]

\* get_diff(last, current, "src/"): the diff text limited to src/, blank when the
\* change touches nothing there
get_diff(change) == IF change.src THEN Str("diff") ELSE <<>>

\* get_remote_tags_for_commit(commit): the remote tag names that point at commit
get_remote_tags_for_commit(ls, commit) ==
    LET tags == get_remote_tags_with_commits(ls)
    IN  {t \in DOMAIN tags : tags[t] = commit}

\* ------------------------------------------------- answers of collaborators
\* tag names, character by character
Tag_v1 == <<"v", "1">>
Tag_v1_2 == <<"v", "1", ".", "2">>

\* the answer of a collaborator that was not asked
NoAnswer == Str("<not asked>")
NoChange == [asked |-> FALSE, files_changed |-> 0, insertions |-> 0, deletions |-> 0, src |-> FALSE]
NoLsRemote == [asked |-> FALSE, rc |-> 0, out |-> <<>>]
NoLocalTags == [asked |-> FALSE, ok |-> FALSE, tags |-> <<>>]
NoStatus == [asked |-> FALSE, ok |-> FALSE, out |-> <<>>]

\* os.path.exists / os.listdir of the stage's deliverable directory
DeliverableAnswers == {"missing", "empty", "populated"}

\* `git diff` between the recorded and the current commit: the --shortstat
\* numbers, and whether any changed line is under src/
ChangeAnswers ==
    {[asked |-> TRUE, files_changed |-> 0, insertions |-> 0, deletions |-> 0, src |-> FALSE],
     [asked |-> TRUE, files_changed |-> 1, insertions |-> 3, deletions |-> 0, src |-> TRUE],
     [asked |-> TRUE, files_changed |-> 2, insertions |-> 5, deletions |-> 4, src |-> TRUE],
     [asked |-> TRUE, files_changed |-> 2, insertions |-> 6, deletions |-> 4, src |-> TRUE],
     [asked |-> TRUE, files_changed |-> 1, insertions |-> 12, deletions |-> 0, src |-> TRUE],
     [asked |-> TRUE, files_changed |-> 1, insertions |-> 12, deletions |-> 0, src |-> FALSE]}

\* `git status --porcelain`: ok is FALSE for a CalledProcessError
StatusAnswers ==
    {[asked |-> TRUE, ok |-> TRUE, out |-> <<>>],
     [asked |-> TRUE, ok |-> TRUE, out |-> <<SP, "M", SP, "README", NL>>]}

\* the tests directory, the pytest executable and the run's result
TestAnswers == {"no_tests", "no_pytest", "fail", "pass"}

\* `git ls-remote --tags origin`: exit status and output lines
LsRemoteAnswers(h) ==
    {[asked |-> TRUE, rc |-> 128, out |-> <<>>],
     [asked |-> TRUE, rc |-> 0, out |-> <<>>],
     [asked |-> TRUE, rc |-> 0, out |-> <<[sha |-> Sha(h), tag |-> Tag_v1_2, peeled |-> FALSE]>>],
     [asked |-> TRUE, rc |-> 0, out |-> <<[sha |-> Sha(h), tag |-> Tag_v1, peeled |-> FALSE]>>],
     [asked |-> TRUE, rc |-> 0, out |-> <<[sha |-> OtherSha, tag |-> Tag_v1, peeled |-> FALSE]>>],
     [asked |-> TRUE, rc |-> 0, out |-> <<[sha |-> OtherSha, tag |-> Tag_v1_2, peeled |-> FALSE],
                          [sha |-> Sha(h), tag |-> Tag_v1_2, peeled |-> TRUE]>>]}

\* `git tag --points-at <commit>`: ok is FALSE for a CalledProcessError
LocalTagAnswers ==
    {[asked |-> TRUE, ok |-> TRUE, tags |-> <<>>],
     [asked |-> TRUE, ok |-> TRUE, tags |-> <<Tag_v1_2>>],
     [asked |-> TRUE, ok |-> FALSE, tags |-> <<>>]}

\* One approve() asks its collaborators in the order of the code and stops asking
\* at the first failure; a collaborator that is not asked gives NoAnswer.
Answer(d, c, t, r, l) ==
    [deliverable |-> d, change |-> c, tests |-> t, ls_remote |-> r, local_tags |-> l]

NoEnv == Answer("<not asked>", NoChange, NoAnswer, NoLsRemote, NoLocalTags)

\* the tag questions of the Deployer stage: the local tags are asked only when the
\* remote query gave nothing (nothing: the remote answers that gave nothing)
TagAnswers(d, h, nothing) ==
    UNION {{Answer(d, NoChange, NoAnswer, r, l) :
                l \in IF r \in nothing THEN LocalTagAnswers ELSE {NoLocalTags}} :
           r \in LsRemoteAnswers(h)}

\* what StateManager._validate_stage can be answered
SM_Answers(stage, st, h) ==
    {Answer(d, NoChange, NoAnswer, NoLsRemote, NoLocalTags) : d \in {"missing", "empty"}}
    \cup
    (CASE stage = Str("Coder") ->
            {Answer("populated", c, NoAnswer, NoLsRemote, NoLocalTags) :
                c \in IF WS_get(st, K_LastCommitSHA) = get_latest_commit_hash(h)
                      THEN {NoChange} ELSE ChangeAnswers}
       [] stage = Str("Validator") ->
            {Answer("populated", NoChange, Str(t), NoLsRemote, NoLocalTags) : t \in TestAnswers}
       [] stage = Str("Deployer") ->
            TagAnswers("populated", h,
                       {r \in LsRemoteAnswers(h) : get_remote_tags_with_commits(r) = EmptyDict})
       [] OTHER -> {Answer("populated", NoChange, NoAnswer, NoLsRemote, NoLocalTags)})

\* what WorkflowManager._validate_stage can be answered
WM_Answers(stage, h) ==
    CASE stage = Str("Validator") ->
            {Answer("<not asked>", NoChange, Str(t), NoLsRemote, NoLocalTags) : t \in TestAnswers}
      [] stage = Str("Deployer") ->
            TagAnswers("<not asked>", h,
                       {r \in LsRemoteAnswers(h) :
                            get_remote_tags_for_commit(r, get_latest_commit_hash(h)) = {}})
      [] OTHER -> {Answer("<not asked>", NoChange, NoAnswer, NoLsRemote, NoLocalTags)}

\* ---------------------------------------------------------- stage validation
\* Each check gives "ok" or the reason it stops the process.
\* StateManager._validate_stage, the deliverable directory of the stage
SM_check_deliverable(stage, a) ==
    IF stage \notin DOMAIN DELIVERABLE_PATHS \/ a.deliverable # "populated"
    THEN "DeliverableMissing"
    ELSE "ok"

\* a Coder check that reports a blank diff and goes on
SM_check_coder_NoExit(st, h, a) ==
    IF WS_get(st, K_LastCommitSHA) = get_latest_commit_hash(h) THEN "NoNewCommit" ELSE "ok"

\* StateManager._validate_stage, the Coder branch
SM_check_coder(st, h, a) ==
    LET last_commit_sha == WS_get(st, K_LastCommitSHA)
        current_commit_sha == get_latest_commit_hash(h)
    IN  IF last_commit_sha = current_commit_sha THEN "NoNewCommit"
        ELSE IF Strip(get_diff(a.change)) = <<>> THEN "NoCodeChange"
        ELSE "ok"

\* StateManager._validate_stage, the Validator branch
SM_check_validator(a) ==
    IF a.tests = Str("no_tests") THEN "NoTests"
    ELSE IF a.tests = Str("no_pytest") THEN "NoPytest"
    ELSE IF a.tests = Str("fail") THEN "TestFailure"
    ELSE "ok"

\* StateManager._validate_stage, the Deployer branch
SM_check_deployer(h, a) ==
    LET latest_commit == get_latest_commit_hash(h)
        remote_tags == get_remote_tags_with_commits(a.ls_remote)
    IN  IF remote_tags # EmptyDict
        THEN \* `for tag, tag_commit in remote_tags` unpacks each KEY of the dict, a
             \* tag name: ValueError unless it has two characters, and then
             \* tag_commit is its second character
             IF \E k \in DOMAIN remote_tags : Len(k) # 2 THEN "ValueError"
             ELSE IF latest_commit \notin {<<k[2]>> : k \in DOMAIN remote_tags}
                  THEN "UntaggedRelease"
                  ELSE "ok"
        ELSE IF get_local_tags_for_commit(a.local_tags) = <<>>
             THEN "UntaggedRelease"
             ELSE "ok"

\* StateManager._validate_stage
SM_validate_stage(stage, st, h, a) ==
    IF SM_check_deliverable(stage, a) # "ok" THEN SM_check_deliverable(stage, a)
    ELSE IF stage = Str("Coder") THEN SM_check_coder(st, h, a)
    ELSE IF stage = Str("Validator") THEN SM_check_validator(a)
    ELSE IF stage = Str("Deployer") THEN SM_check_deployer(h, a)
    ELSE "ok"

\* WorkflowManager._validate_stage
WM_validate_stage(stage, h, a) ==
    IF stage = Str("Validator")
    THEN IF a.tests = Str("no_pytest") THEN "FileNotFoundError"
         ELSE IF a.tests # Str("pass") THEN "TestFailure"
         ELSE "ok"
    ELSE IF stage = Str("Deployer")
    THEN IF get_remote_tags_for_commit(a.ls_remote, get_latest_commit_hash(h)) # {}
         THEN "ok"
         ELSE IF get_local_tags_for_commit(a.local_tags) = <<>> THEN "UntaggedRelease"
         ELSE "ok"
    ELSE "ok"

\* ------------------------------------------------ requirement cycle completion
\* the line _complete_requirement_cycle appends to the approval log
ApprovalLine(req_id) ==
    <<"Requirement", SP>> \o IntToStr(req_id) \o <<SP, "approved", SP, "at", SP, "<timestamp>", NL>>

Unchecked == <<"[", SP, "]">>
Checked == <<"[", "x", "]">>

\* the first checklist line the loop rewrites, 0 if it finds none
ChecklistIndex(lines, req_id) ==
    LET hits == {i \in 1..Len(lines) :
                    /\ Contains(lines[i], <<"ID", SP>> \o IntToStr(req_id))
                    /\ Contains(lines[i], Unchecked)}
    IN  IF hits = {} THEN 0 ELSE CHOOSE i \in hits : \A j \in hits : i <= j

\* the requirements file after the checklist step of _complete_requirement_cycle
ChecklistAfter(file, req_id) ==
    IF file = None THEN None
    ELSE LET lines == SplitLines(file)
             i == ChecklistIndex(lines, req_id)
         IN  IF i = 0 THEN file
             ELSE JoinLines([lines EXCEPT ![i] = ReplaceFirst(lines[i], Unchecked, Checked)])
                     \o <<NL>>

\* ------------------------------------------------------------------- state
VARIABLES
    master_file,        \* text of docs/WORKFLOW_MASTER.md
    approval_file,      \* text of logs/approvals.log
    requirements_file,  \* text of docs/PROJECT_REQUIREMENTS.md, None if absent
    last_commit_file,   \* text of LAST_COMMIT_FILE, None if absent
    head,               \* number of the latest commit of the repository
    pc,                 \* position of the running command
    engine,             \* the class the command runs: "StateManager" or "WorkflowManager"
    state,              \* the manager's WorkflowState: [lines, data]
    current_stage,      \* the manager's current_stage attribute
    env,                \* the collaborators' answers to this command
    exit_reason,        \* why the command stopped early, "none" otherwise
    pre,                \* history: the files and the working directory as they
                        \* were when the command started
    events              \* history: the steps the command has taken, in order

vars == <<master_file, approval_file, requirements_file, last_commit_file, head,
          pc, engine, state, current_stage, env, exit_reason, pre, events>>

files == <<master_file, approval_file, requirements_file, last_commit_file>>

Engines == {"StateManager", "WorkflowManager"}

\* ----------------------------------------------------------- initial files
\* a line `[- ]Key: Value[ # comment]` of the state document
DocLine(format, key, value) ==
    (IF format = "bullet" THEN <<"-", SP>> ELSE <<>>)
        \o key \o <<":", SP>> \o value
        \o (IF format = "comment" THEN <<SP, "#", SP, "note">> ELSE <<>>)

InitDoc(format, stage, pointer) ==
    JoinLines(<< <<"#", SP, "Workflow">>,
                 DocLine(format, K_CurrentStage, stage),
                 DocLine(format, K_RequirementPointer, IntToStr(pointer)),
                 DocLine(format, K_LastCommitSHA, Sha(0)) >>) \o <<NL>>

\* a line `- [ ] ID <n>: <title>` of the requirements checklist
ChecklistLine(n) == <<"-", SP>> \o Unchecked \o <<SP, "ID", SP>> \o IntToStr(n) \o <<":", SP, "title">>

Checklist(ids) == JoinLines([i \in 1..Len(ids) |-> ChecklistLine(ids[i])]) \o <<NL>>

\* the working directories a run starts from: the format of the state document and
\* the requirements checklist (absent, in order, or with ID 10 listed before ID 1)
InitSetups ==
    {[format |-> "plain", checklist |-> Checklist(<<1, 2, 3>>)],
     [format |-> "bullet", checklist |-> None],
     [format |-> "comment", checklist |-> Checklist(<<10, 1, 2>>)]}

NoState == [lines |-> <<>>, data |-> EmptyDict]

NoHistory == [approved |-> <<>>, completions |-> 0]

\* the files, the stage and pointer the state document holds, the latest commit,
\* the output of `git status --porcelain` and the stage's deliverable directory
Snapshot == [master |-> master_file, approval |-> approval_file,
             requirements |-> requirements_file, last_commit |-> last_commit_file,
             stage |-> WS_get(WS_load(master_file), K_CurrentStage),
             pointer |-> StrToInt(WS_get(WS_load(master_file), K_RequirementPointer)),
             head |-> head,
             status |-> NoStatus,
             dir |-> "<not asked>",
             hist |-> NoHistory]

Init ==
    /\ \E setup \in InitSetups, s \in StageSet :
        /\ master_file = InitDoc(setup.format, s, 1)
        /\ requirements_file = setup.checklist
    /\ approval_file = <<>>
    /\ last_commit_file = None
    /\ head = 0
    /\ pc = "idle"
    /\ engine = "StateManager"
    /\ state = NoState
    /\ current_stage = None
    /\ env = NoEnv
    /\ exit_reason = "none"
    /\ pre = Snapshot
    /\ events = <<>>

\* the RequirementPointer the state document holds
FilePointer ==
    IF master_file = pre.master THEN pre.pointer
    ELSE StrToInt(WS_get(WS_load(master_file), K_RequirementPointer))

\* the CurrentStage the state document holds
FileStage ==
    IF master_file = pre.master THEN pre.stage
    ELSE WS_get(WS_load(master_file), K_CurrentStage)

\* ------------------------------------------------------------------ actions
Idle == pc \in {"idle", "done", "exited", "reported"}

\* the operator commits work to master
Commit ==
    /\ Idle
    /\ head < MaxCommits
    /\ head' = head + 1
    /\ UNCHANGED <<master_file, approval_file, requirements_file, last_commit_file,
                   pc, engine, state, current_stage, env, exit_reason, pre, events>>

\* the runs are cut off where a cycle completion would take the pointer beyond
\* maxp or the approval log beyond maxl lines
WithinBounds(maxp, maxl) ==
    FileStage = Str("Deployer") =>
        /\ FilePointer <= maxp
        /\ Len(SplitLines(approval_file)) < maxl

\* the stages approved by completed commands since the last cycle completion, and
\* the number of cycle completions, as known when the next command starts
History ==
    IF pc # "done" THEN pre.hist
    ELSE IF pre.stage = Str("Deployer")
         THEN [approved |-> <<>>, completions |-> pre.hist.completions + 1]
         ELSE [approved |-> Append(pre.hist.approved, pre.stage),
               completions |-> pre.hist.completions]

\* a command starts: StateManager() / WorkflowManager() loads the state document.
\* status and dir are what `git status --porcelain` would print and the state of
\* the stage's deliverable directory while the command runs, NoStatus and
\* "<not asked>" where the run does not follow them; hist is the history of
\* approvals so far, NoHistory where the run does not follow it.
Construct(e, status, dir, hist) ==
    /\ Idle
    /\ engine' = e
    /\ state' = WS_load(master_file)
    /\ current_stage' = WS_get(state', K_CurrentStage)
    /\ env' = NoEnv
    /\ exit_reason' = "none"
    /\ pre' = [master |-> master_file, approval |-> approval_file,
               requirements |-> requirements_file, last_commit |-> last_commit_file,
               stage |-> current_stage',
               pointer |-> StrToInt(WS_get(state', K_RequirementPointer)),
               head |-> head,
               status |-> status,
               dir |-> dir,
               hist |-> hist]
    /\ events' = <<>>
    /\ pc' = "constructed"
    /\ UNCHANGED <<files, head>>

\* approve(): self._validate_stage() (and the empty _run_pre_transition_actions)
Validate ==
    /\ pc = "constructed"
    /\ \E a \in IF engine = "StateManager"
                 THEN {x \in SM_Answers(current_stage, state, head) :
                            pre.dir \in {"<not asked>", x.deliverable}}
                 ELSE WM_Answers(current_stage, head) :
        LET r == IF engine = "StateManager"
                 THEN SM_validate_stage(current_stage, state, head, a)
                 ELSE WM_validate_stage(current_stage, head, a)
        IN  /\ env' = a
            /\ pc' = IF r = "ok" THEN "validated" ELSE "exited"
            /\ exit_reason' = IF r = "ok" THEN "none" ELSE r
    /\ events' = Append(events, "validate")
    /\ UNCHANGED <<files, head, engine, state, current_stage, pre>>

\* a cycle completion that is started for the last two stages
Terminal_LastTwo == StageIndex(current_stage) >= Len(STAGES) - 1

\* is the stage being left the terminal one
Terminal == StageIndex(current_stage) = Len(STAGES)

\* _complete_requirement_cycle, first part: read the pointer, append to the log
CompleteLog ==
    /\ pc = "validated"
    /\ Terminal
    /\ LET p == WS_get(state, K_RequirementPointer)
       IN  IF IsDigits(p)
           THEN /\ approval_file' = approval_file \o ApprovalLine(StrToInt(p))
                /\ pc' = "logged"
                /\ exit_reason' = exit_reason
                /\ events' = Append(events, "log")
           ELSE /\ pc' = "exited"
                /\ exit_reason' = "ValueError"
                /\ UNCHANGED <<approval_file, events>>
    /\ UNCHANGED <<master_file, requirements_file, last_commit_file, head, engine,
                   state, current_stage, env, pre>>

\* _complete_requirement_cycle, second part: tick the requirement off
CompleteChecklist ==
    /\ pc = "logged"
    /\ requirements_file' =
            ChecklistAfter(requirements_file, StrToInt(WS_get(state, K_RequirementPointer)))
    /\ pc' = "checked"
    /\ events' = Append(events, "checklist")
    /\ UNCHANGED <<master_file, approval_file, last_commit_file, head, engine, state,
                   current_stage, env, exit_reason, pre>>

\* a successor that does not wrap around after the last stage
NextStage_NoWrap(stage) ==
    IF StageIndex(stage) = Len(STAGES) THEN stage ELSE STAGES[StageIndex(stage) + 1]

\* the stage that follows stage in the fixed cycle
NextStage(stage) ==
    IF StageIndex(stage) = Len(STAGES) THEN STAGES[1] ELSE STAGES[StageIndex(stage) + 1]

\* a transition that leaves the pointer alone after the terminal stage
StoreAfter_NoAdvance(st, stage) == WS_set(st, K_CurrentStage, NextStage(stage))

\* a transition that steps the pointer the wrong way after the terminal stage
StoreAfter_Decrement(st, stage) ==
    LET stepped == IF StageIndex(stage) = Len(STAGES)
                   THEN WS_set(st, K_RequirementPointer,
                               IntToStr(StrToInt(WS_get(st, K_RequirementPointer)) - 1))
                   ELSE st
    IN  WS_set(stepped, K_CurrentStage, NextStage(stage))

\* the store after the in-memory updates of a transition: the last line of
\* _complete_requirement_cycle when the stage is terminal, then set("CurrentStage")
StoreAfter(st, stage) ==
    LET advanced == IF StageIndex(stage) = Len(STAGES)
                    THEN WS_set(st, K_RequirementPointer,
                                IntToStr(StrToInt(WS_get(st, K_RequirementPointer)) + 1))
                    ELSE st
    IN  WS_set(advanced, K_CurrentStage, NextStage(stage))

\* the in-memory updates; WorkflowManager also updates its own current_stage
SetStage ==
    /\ \/ pc = "validated" /\ ~Terminal
       \/ pc = "checked"
    /\ state' = StoreAfter(state, current_stage)
    /\ current_stage' = IF engine = "WorkflowManager" THEN NextStage(current_stage)
                        ELSE current_stage
    /\ pc' = "stage_set"
    /\ events' = IF Terminal THEN events \o <<"set_pointer", "set_stage">>
                 ELSE Append(events, "set_stage")
    /\ UNCHANGED <<files, head, engine, env, exit_reason, pre>>

\* self.state.save(): after the post-transition actions in WorkflowManager, before
\* them in StateManager
Save ==
    /\ \/ engine = "StateManager" /\ pc = "stage_set"
       \/ engine = "WorkflowManager" /\ pc = "posted"
    /\ master_file' = WS_save(state)
    /\ pc' = IF engine = "StateManager" THEN "saved" ELSE "done"
    /\ events' = Append(events, "save")
    /\ UNCHANGED <<approval_file, requirements_file, last_commit_file, head, engine,
                   state, current_stage, env, exit_reason, pre>>

\* _run_post_transition_actions(): git_handler.save_current_commit_sha() for "Coder"
PostTransition ==
    /\ \/ engine = "StateManager" /\ pc = "saved"
       \/ engine = "WorkflowManager" /\ pc = "stage_set"
    /\ IF current_stage = Str("Coder")
       THEN /\ last_commit_file' = get_latest_commit_hash(head)
            /\ events' = Append(events, "record_sha")
       ELSE UNCHANGED <<last_commit_file, events>>
    /\ pc' = IF engine = "StateManager" THEN "done" ELSE "posted"
    /\ UNCHANGED <<master_file, approval_file, requirements_file, head, engine, state,
                   current_stage, env, exit_reason, pre>>

\* the operator interrupts the running command between two steps of the
\* transition (before them, an interrupted command has done nothing)
Interrupt ==
    /\ ~Idle
    /\ pc \notin {"constructed", "validated"}
    /\ pc' = "exited"
    /\ exit_reason' = "Interrupt"
    /\ UNCHANGED <<files, head, engine, state, current_stage, env, pre, events>>

\* approve() of engine e as a whole, for a command that found p (a record like pre)
\* and was admitted: the files it leaves and the steps it takes, in order
Outcome(e, p) ==
    LET terminal == StageIndex(p.stage) = Len(STAGES)
        posted == IF e = "WorkflowManager" THEN NextStage(p.stage) ELSE p.stage
        record == IF posted = Str("Coder") THEN <<"record_sha">> ELSE <<>>
    IN  [master |-> WS_save(StoreAfter(WS_load(p.master), p.stage)),
         approval |-> IF terminal THEN p.approval \o ApprovalLine(p.pointer)
                      ELSE p.approval,
         requirements |-> IF terminal THEN ChecklistAfter(p.requirements, p.pointer)
                          ELSE p.requirements,
         last_commit |-> IF posted = Str("Coder") THEN get_latest_commit_hash(p.head)
                         ELSE p.last_commit,
         steps |-> <<"validate">>
                   \o (IF terminal THEN <<"log", "checklist", "set_pointer">> ELSE <<>>)
                   \o <<"set_stage">>
                   \o (IF e = "WorkflowManager" THEN record \o <<"save">>
                       ELSE <<"save">> \o record)]

\* the methods class WorkflowManager defines
WorkflowManagerMethods ==
    {"__init__", "get_state", "approve", "get_status", "_transition_to_next_stage",
     "_validate_stage", "_run_pre_transition_actions", "_run_post_transition_actions",
     "_complete_requirement_cycle"}

\* what a command that is no approve() finds when it starts; call is the method it
\* calls, report the lines it prints, queries the number of times it asks for the
\* changes since the last commit, written the files it writes
Found(call, report, queries, written) ==
    [master |-> master_file, approval |-> approval_file,
     requirements |-> requirements_file, last_commit |-> last_commit_file,
     stage |-> FileStage, pointer |-> FilePointer, head |-> head,
     status |-> NoStatus, dir |-> "<not asked>", hist |-> NoHistory,
     call |-> call, report |-> report, queries |-> queries, written |-> written]

\* a get_status that writes each value back into the store
get_status_WritesBack(st) ==
    [store |-> WS_set(st, K_CurrentStage, WS_get(st, K_CurrentStage)),
     report |-> {<<"-", SP>> \o k \o <<":", SP>> \o st.data[k] : k \in DOMAIN st.data}]

\* WorkflowManager.get_status: the lines printed between header and footer, and the
\* store it leaves
get_status(st) ==
    [store |-> st,
     report |-> {<<"-", SP>> \o k \o <<":", SP>> \o st.data[k] : k \in DOMAIN st.data}]

\* the status command: WorkflowManager().get_status()
GetStatus ==
    /\ Idle
    /\ engine' = "WorkflowManager"
    /\ state' = get_status(WS_load(master_file)).store
    /\ current_stage' = FileStage
    /\ pre' = Found("get_status", get_status(WS_load(master_file)).report, 0, {})
    /\ env' = NoEnv
    /\ exit_reason' = "none"
    /\ events' = <<>>
    /\ pc' = "reported"
    /\ UNCHANGED <<files, head>>

\* WorkflowManager()._generate_coder_deliverable() in the Coder stage, as the test
\* calls it: the class defines no such method, the attribute lookup raises
GenerateCoderDeliverable ==
    /\ Idle
    /\ FileStage = Str("Coder")
    /\ "_generate_coder_deliverable" \notin WorkflowManagerMethods
    /\ engine' = "WorkflowManager"
    /\ state' = WS_load(master_file)
    /\ current_stage' = FileStage
    /\ pre' = Found("_generate_coder_deliverable", {}, 0, {})
    /\ env' = NoEnv
    /\ exit_reason' = "AttributeError"
    /\ events' = <<>>
    /\ pc' = "exited"
    /\ UNCHANGED <<files, head>>

\* the steps of approve()
Progress ==
    \/ Validate
    \/ CompleteLog
    \/ CompleteChecklist
    \/ SetStage
    \/ Save
    \/ PostTransition

\* the steps of a running command
Step ==
    \/ Progress
    \/ Interrupt

Next ==
    \/ Commit
    \/ \E e \in Engines :
        WithinBounds(MaxPointer, MaxLog) /\ Construct(e, NoStatus, "<not asked>", NoHistory)
    \/ Step
    \/ GetStatus
    \/ GenerateCoderDeliverable

Spec == Init /\ [][Next]_vars

\* the same commands, followed together with the state of the working tree and of
\* the deliverable directory they run in
NextWorkdir ==
    \/ Commit
    \/ \E e \in Engines, st \in StatusAnswers, d \in DeliverableAnswers :
        WithinBounds(MaxPointer, MaxLog) /\ Construct(e, st, d, NoHistory)
    \/ Step

SpecWorkdir == Init /\ [][NextWorkdir]_vars

\* approve() is called again on the manager object of a completed approve(): the
\* object keeps its store and its current_stage, nothing is loaded anew; pre stays
\* what the object found when it was made and events go on
MaxReuse == 1

ApproveAgain ==
    /\ pc = "done"
    /\ Cardinality({i \in 1..Len(events) : events[i] = "again"}) < MaxReuse
    /\ current_stage = Str("Deployer") =>
        /\ FilePointer <= MaxPointer
        /\ Len(SplitLines(approval_file)) < MaxLog
    /\ pc' = "constructed"
    /\ env' = NoEnv
    /\ events' = Append(events, "again")
    /\ UNCHANGED <<files, head, engine, state, current_stage, exit_reason, pre>>

\* commands left to run to their end, and managers used for more than one approve()
NextReuse ==
    \/ Commit
    \/ \E e \in Engines :
        WithinBounds(MaxPointer, MaxLog) /\ Construct(e, NoStatus, "<not asked>", NoHistory)
    \/ Progress
    \/ ApproveAgain

SpecReuse == Init /\ [][NextReuse]_vars

\* commands that are left to run to their end, one after the other, followed over
\* MaxCycles cycle completions together with the history of the approvals
MaxCycles == 2

NextCycle ==
    \/ Commit
    \/ \E e \in Engines :
        WithinBounds(MaxCycles, MaxCycles) /\ Construct(e, NoStatus, "<not asked>", History)
    \/ Progress

SpecCycle == Init /\ [][NextCycle]_vars

\* ------------------------------------------------ the WorkflowState alone
\* A second state machine: one WorkflowState object over a state document drawn
\* from StoreDocs, and the calls get, set and save on it in any order. Here pre is
\* the history of the last call: the document before it and when the object was
\* made, the store before it, the call's name, key and value (for get, its result).
MaxCalls == 2

\* lines a state document is made of
StoreLinePool ==
    {DocLine("plain", K_CurrentStage, Str("Engineer")),
     DocLine("bullet", K_RequirementPointer, <<"1">>),
     DocLine("comment", K_CurrentStage, Str("Coder")),
     <<"-", SP>> \o K_RequirementPointer \o <<":", SP, "1", SP, "#", "note">>,
     <<"#", SP, "Workflow">>,
     <<>>}

\* the documents: up to two such lines, the last with or without its newline
StoreDocs ==
    LET seqs == {<<>>} \cup {<<a>> : a \in StoreLinePool}
                       \cup {<<a, b>> : a \in StoreLinePool, b \in StoreLinePool}
    IN  {JoinLines(ls) \o end : ls \in seqs, end \in {<<>>, <<NL>>}}

\* the keys and values the calls are made with; Owner is in no document
StoreKeys == {K_CurrentStage, K_RequirementPointer, Str("Owner")}
StoreValues == {Str("Validator"), <<"2">>}

Call(op, key, value) ==
    [master |-> master_file, loaded |-> IF op = "init" THEN master_file ELSE pre.loaded,
     store |-> state, op |-> op, key |-> key, value |-> value]

InitStore ==
    /\ master_file \in StoreDocs
    /\ approval_file = <<>>
    /\ requirements_file = None
    /\ last_commit_file = None
    /\ head = 0
    /\ pc = "unloaded"
    /\ engine = "WorkflowState"
    /\ state = NoState
    /\ current_stage = None
    /\ env = NoEnv
    /\ exit_reason = "none"
    /\ pre = [master |-> master_file, loaded |-> master_file, store |-> NoState,
              op |-> "none", key |-> <<>>, value |-> <<>>]
    /\ events = <<>>

\* WorkflowState(): read the document and parse it
StoreInit ==
    /\ pc = "unloaded"
    /\ state' = WS_load(master_file)
    /\ pre' = Call("init", <<>>, <<>>)
    /\ pc' = "loaded"
    /\ UNCHANGED <<files, head, engine, current_stage, env, exit_reason, events>>

\* state.get(key)
StoreGet(key) ==
    /\ pc = "loaded"
    /\ Len(events) < MaxCalls
    /\ pre' = Call("get", key, WS_get(state, key))
    /\ events' = Append(events, "get")
    /\ UNCHANGED <<files, head, pc, engine, state, current_stage, env, exit_reason>>

\* a set that writes the document as well
StoreSet_WriteThrough(key, value) ==
    /\ pc = "loaded"
    /\ Len(events) < MaxCalls
    /\ state' = WS_set(state, key, value)
    /\ master_file' = WS_save(state')
    /\ pre' = Call("set", key, value)
    /\ events' = Append(events, "set")
    /\ UNCHANGED <<approval_file, requirements_file, last_commit_file, head, pc, engine,
                   current_stage, env, exit_reason>>

\* state.set(key, value)
StoreSet(key, value) ==
    /\ pc = "loaded"
    /\ Len(events) < MaxCalls
    /\ state' = WS_set(state, key, value)
    /\ pre' = Call("set", key, value)
    /\ events' = Append(events, "set")
    /\ UNCHANGED <<files, head, pc, engine, current_stage, env, exit_reason>>

\* state.save()
StoreSave ==
    /\ pc = "loaded"
    /\ Len(events) < MaxCalls
    /\ master_file' = WS_save(state)
    /\ pre' = Call("save", <<>>, <<>>)
    /\ events' = Append(events, "save")
    /\ UNCHANGED <<approval_file, requirements_file, last_commit_file, head, pc, engine,
                   state, current_stage, env, exit_reason>>

NextStore ==
    \/ StoreInit
    \/ \E k \in StoreKeys : StoreGet(k)
    \/ \E k \in StoreKeys, v \in StoreValues : StoreSet(k, v)
    \/ StoreSave

SpecStore == InitStore /\ [][NextStore]_vars

\* ================================================================== claims
\* the command has run its validation
ValidationRan == events # <<>>

\* the validation let the command go on (an interrupt can only follow that)
Admitted == ValidationRan /\ exit_reason \in {"none", "Interrupt"}

\* the validation stopped the command for reason r
Rejected(r) == ValidationRan /\ pc = "exited" /\ exit_reason = r

\* nothing on disk differs from what the command found
FilesUntouched ==
    /\ master_file = pre.master
    /\ approval_file = pre.approval
    /\ requirements_file = pre.requirements
    /\ last_commit_file = pre.last_commit

\* the store in memory is the one the command loaded
MemoryUntouched ==
    /\ state = WS_load(pre.master)
    /\ WS_get(state, K_CurrentStage) = pre.stage
    /\ StrToInt(WS_get(state, K_RequirementPointer)) = pre.pointer
    /\ current_stage = pre.stage

\* the remote has a tag on commit h (for an annotated tag, the peeled line)
RemoteHasHead(ls, h) == ls.rc = 0 /\ \E i \in 1..Len(ls.out) : ls.out[i].sha = Sha(h)

\* the evidence the command met makes the stage's validation fail
FailingEvidence ==
    \/ env.deliverable \in {"missing", "empty"}
    \/ /\ engine = "StateManager"
       /\ pre.stage = Str("Coder")
       /\ env.deliverable = "populated"
       /\ ~env.change.asked \/ ~env.change.src
    \/ /\ pre.stage = Str("Validator")
       /\ env.tests \in {Str("no_tests"), Str("no_pytest"), Str("fail")}
    \/ /\ pre.stage = Str("Deployer")
       /\ env.ls_remote.asked
       /\ ~RemoteHasHead(env.ls_remote, pre.head)
       /\ env.local_tags.tags = <<>>

\* C1: whenever the evidence a command met fails its stage's validation (missing or
\* empty deliverable directory, no new commit or no change under src/ in Coder,
\* missing or failing tests in Validator, untagged commit in Deployer), the command
\* has exited and the state document, the approval log, the checklist, the recorded
\* commit SHA and the in-memory CurrentStage and RequirementPointer are as before.
C1_FailedValidationChangesNothing ==
    (ValidationRan /\ FailingEvidence) =>
        /\ pc = "exited"
        /\ FilesUntouched
        /\ MemoryUntouched

C1_Witness ==
    /\ Rejected("NoCodeChange")
    /\ pre.stage = Str("Coder")
    /\ env.change.asked /\ ~env.change.src

\* the fixed successor of each stage, as the documentation lists it
Successor(stage) ==
    CASE stage = Str("Engineer") -> Str("Researcher")
      [] stage = Str("Researcher") -> Str("Coder")
      [] stage = Str("Coder") -> Str("Validator")
      [] stage = Str("Validator") -> Str("Deployer")
      [] stage = Str("Deployer") -> Str("Engineer")

\* C2: a command that completed has moved CurrentStage, on disk and in the store, to
\* the fixed successor of the stage it started in; and at no point of a command is
\* the persisted CurrentStage anything but the stage it started in or its successor.
C2_StageMovesToSuccessor ==
    /\ pc = "done" =>
        /\ FileStage = Successor(pre.stage)
        /\ WS_get(state, K_CurrentStage) = Successor(pre.stage)
    /\ FileStage \in {pre.stage, Successor(pre.stage)}

C2_Witness ==
    /\ pc = "done"
    /\ pre.stage = Str("Deployer")
    /\ FileStage = Str("Engineer")

\* C3: the CurrentStage in the state document, the CurrentStage in a loaded store and
\* the manager's current_stage are each one of the five stages, in every state.
C3_StageIsAlwaysAStage ==
    /\ FileStage \in StageSet
    /\ pc # "idle" =>
        /\ WS_get(state, K_CurrentStage) \in StageSet
        /\ current_stage \in StageSet

C3_Witness ==
    /\ Rejected("TestFailure")
    /\ FileStage = Str("Validator")
    /\ FilePointer = 2

\* the lines of the approval log
LogLines == SplitLines(approval_file)

\* C4: a completed command that started in Deployer leaves RequirementPointer at its
\* previous value plus 1 and the approval log one line longer, the new line naming the
\* previous pointer; a completed command that started in any other stage leaves both
\* as they were.
C4_CycleCompletion ==
    pc = "done" =>
        IF pre.stage = Str("Deployer")
        THEN /\ FilePointer = pre.pointer + 1
             /\ StrToInt(WS_get(state, K_RequirementPointer)) = pre.pointer + 1
             /\ Len(LogLines) = Len(SplitLines(pre.approval)) + 1
             /\ SubSeq(LogLines, 1, Len(LogLines) - 1) = SplitLines(pre.approval)
             /\ StartsWith(LogLines[Len(LogLines)],
                           <<"Requirement", SP>> \o IntToStr(pre.pointer) \o <<SP, "approved">>)
        ELSE /\ FilePointer = pre.pointer
             /\ StrToInt(WS_get(state, K_RequirementPointer)) = pre.pointer
             /\ approval_file = pre.approval

C4_Witness ==
    /\ pc = "done"
    /\ pre.stage = Str("Deployer")
    /\ Len(SplitLines(pre.approval)) = 1

\* the place of step e among the steps the command has taken, 0 if it has not
Position(e) ==
    IF \E i \in 1..Len(events) : events[i] = e
    THEN CHOOSE i \in 1..Len(events) : events[i] = e
    ELSE 0

\* step a was taken, and before step b if b was taken at all
Precedes(a, b) == Position(b) # 0 => (Position(a) # 0 /\ Position(a) < Position(b))

\* C5: in every command the validation comes before any set of CurrentStage or
\* RequirementPointer, every set comes before the save of the state document, and the
\* save comes before the approved commit SHA is recorded.
C5_StepOrder ==
    /\ Precedes("validate", "set_pointer")
    /\ Precedes("validate", "set_stage")
    /\ Precedes("set_stage", "save")
    /\ Position("set_pointer") # 0 => Precedes("set_pointer", "save")
    /\ Precedes("save", "record_sha")

\* every effect of the transition out of the stage the command started in is there
AllApplied ==
    /\ FileStage = Successor(pre.stage)
    /\ pre.stage = Str("Deployer") =>
        /\ FilePointer = pre.pointer + 1
        /\ Len(LogLines) = Len(SplitLines(pre.approval)) + 1
        /\ requirements_file = ChecklistAfter(pre.requirements, pre.pointer)
    /\ pre.stage # Str("Deployer") =>
        /\ FilePointer = pre.pointer
        /\ approval_file = pre.approval
        /\ requirements_file = pre.requirements
    /\ pre.stage = Str("Coder") => last_commit_file = Sha(pre.head)

\* C6: a StateManager command that has ended, however it ended, has either applied
\* every effect of its transition or left the state document, the approval log and
\* the checklist as it found them.
C6_NoPartialTransition ==
    (engine = "StateManager" /\ pc \in {"done", "exited"}) =>
        \/ AllApplied
        \/ /\ master_file = pre.master
           /\ approval_file = pre.approval
           /\ requirements_file = pre.requirements

\* the RequirementPointer a state document holds
PointerOf(text) == StrToInt(WS_get(WS_load(text), K_RequirementPointer))

\* C7: no step makes the RequirementPointer of the state document smaller: a step
\* that writes the document leaves a pointer at least as large as the one it replaces.
C7_PointerNeverDecreases ==
    [][master_file' # master_file => PointerOf(master_file') >= PointerOf(master_file)]_vars

C7_Witness ==
    /\ pc = "done"
    /\ pre.stage = Str("Deployer")
    /\ PointerOf(pre.master) = 1
    /\ PointerOf(master_file) = 2

\* C8: a StateManager command in Deployer whose remote answered: when a remote tag
\* is on the latest commit the validation admits the command; when none is (also when
\* the remote has no tags at all) the validation stops it with UntaggedRelease,
\* whatever the local tags are.
C8_RemoteTagAdmission ==
    (/\ engine = "StateManager"
     /\ pre.stage = Str("Deployer")
     /\ ValidationRan
     /\ env.ls_remote.asked
     /\ env.ls_remote.rc = 0) =>
        IF RemoteHasHead(env.ls_remote, pre.head)
        THEN Admitted
        ELSE Rejected("UntaggedRelease")

\* C9: a command in Deployer whose remote tag query failed: with a local tag on the
\* latest commit the validation admits it, and once it completed the pointer is one
\* more, the log one line longer and CurrentStage is Engineer; with no local tag it
\* is stopped with UntaggedRelease and nothing has changed.
C9_LocalTagFallback ==
    (/\ pre.stage = Str("Deployer")
     /\ ValidationRan
     /\ env.ls_remote.asked
     /\ env.ls_remote.rc # 0) =>
        /\ env.local_tags.asked
        /\ IF env.local_tags.ok /\ env.local_tags.tags # <<>>
           THEN /\ Admitted
                /\ pc = "done" =>
                    /\ FilePointer = pre.pointer + 1
                    /\ FileStage = Str("Engineer")
                    /\ Len(LogLines) = Len(SplitLines(pre.approval)) + 1
           ELSE /\ Rejected("UntaggedRelease")
                /\ FilesUntouched
                /\ MemoryUntouched

C9_Witness ==
    /\ engine = "StateManager"
    /\ pc = "done"
    /\ pre.stage = Str("Deployer")
    /\ env.ls_remote.asked /\ env.ls_remote.rc # 0
    /\ env.local_tags.tags = <<Tag_v1_2>>
    /\ FileStage = Str("Engineer")

\* C10: a StateManager command in Coder that got the change statistics: with fewer
\* than 10 inserted plus deleted lines it is stopped and nothing has changed; with 10
\* or more it is admitted, and once it completed CurrentStage is Validator.
C10_MinimumChange ==
    (/\ engine = "StateManager"
     /\ pre.stage = Str("Coder")
     /\ ValidationRan
     /\ env.change.asked) =>
        IF env.change.insertions + env.change.deletions < 10
        THEN /\ pc = "exited"
             /\ exit_reason \notin {"none", "Interrupt"}
             /\ FilesUntouched
             /\ MemoryUntouched
        ELSE /\ Admitted
             /\ pc = "done" => FileStage = Str("Validator")

\* C11: a command that runs in a dirty working tree (`git status --porcelain` prints
\* something) is stopped with DirtyWorkingTree once approve() has begun, and the
\* files and the store in memory are as the command found them.
C11_DirtyTreeRejected ==
    (ValidationRan /\ is_working_directory_clean(pre.status) = "dirty") =>
        /\ Rejected("DirtyWorkingTree")
        /\ FilesUntouched
        /\ MemoryUntouched

\* C12: a completed command has recorded the commit SHA exactly when the stage it
\* approved is Coder; and after approving Coder the state document holds
\* CurrentStage Validator and LastCommitSHA equal to the latest commit.
C12_ShaRecordedOnLeavingCoder ==
    pc = "done" =>
        /\ Position("record_sha") # 0 <=> pre.stage = Str("Coder")
        /\ pre.stage = Str("Coder") =>
            /\ FileStage = Str("Validator")
            /\ WS_get(WS_load(master_file), K_LastCommitSHA) = get_latest_commit_hash(pre.head)
            /\ WS_get(state, K_LastCommitSHA) = get_latest_commit_hash(pre.head)

\* C13: in each of the five stages, a command whose deliverable directory is
\* missing or empty is stopped with DeliverableMissing and CurrentStage stays.
C13_DeliverableRequired ==
    (ValidationRan /\ pre.dir \in {"missing", "empty"}) =>
        /\ Rejected("DeliverableMissing")
        /\ FileStage = pre.stage
        /\ WS_get(state, K_CurrentStage) = pre.stage

\* the first line of lines that the parser reads as key, 0 if there is none
KeyLineIndex(lines, key) ==
    LET hits == {i \in 1..Len(lines) : DOMAIN ParseLine(lines[i], EmptyDict) = {key}}
    IN  IF hits = {} THEN 0 ELSE CHOOSE i \in hits : \A j \in hits : i <= j

\* the trailing comment of a line, None if it has none
CommentOf(line) ==
    IF Contains(line, <<"#">>) THEN Strip(SplitAfter(line, <<"#">>)) ELSE None

\* C14: after set(key, value) on a store whose lines hold the key (plain or
\* bullet-prefixed, with or without comment), there are as many lines as before, the
\* key's line is at the same position, reads key: value and keeps its comment, and
\* every other line is as before; on a store without the key, the lines are the old
\* ones followed by the one line `key: value`.
C14_SetRewritesOneLine ==
    pre.op = "set" =>
        LET before == pre.store.lines
            after == state.lines
            i == KeyLineIndex(before, pre.key)
        IN  IF i # 0
            THEN /\ Len(after) = Len(before)
                 /\ \A j \in 1..Len(before) : j # i => after[j] = before[j]
                 /\ ParseLine(after[i], EmptyDict) = DictSet(EmptyDict, pre.key, pre.value)
                 /\ CommentOf(after[i]) = CommentOf(before[i])
            ELSE after = Append(before, pre.key \o <<":", SP>> \o pre.value)

\* a document every line of which ends with a newline
WellFormed(text) == text # <<>> /\ text[Len(text)] = NL

\* C15: when a WorkflowState made from a well-formed document is saved with no set
\* since it was made, the document is character for character the one it was made
\* from, and parsing the saved document gives the mapping the store holds.
C15_LoadSaveRoundTrip ==
    (/\ pre.op = "save"
     /\ \A i \in 1..Len(events) : events[i] # "set"
     /\ WellFormed(pre.loaded)) =>
        /\ master_file = pre.loaded
        /\ WS_load(master_file) = state
        /\ WS_load(master_file).data = WS_parse(SplitLines(pre.loaded))

C15_Witness ==
    /\ pre.op = "save"
    /\ events = <<"get", "save">>
    /\ pre.loaded = JoinLines(<<DocLine("bullet", K_RequirementPointer, <<"1">>),
                                DocLine("comment", K_CurrentStage, Str("Coder"))>>) \o <<NL>>
    /\ master_file = pre.loaded

\* C16: the state document is the one the WorkflowState was made from for as long as
\* save has not been called on it, whatever get and set calls were made; and a call
\* other than save leaves the document as it was before the call.
C16_OnlySaveWrites ==
    /\ (\A i \in 1..Len(events) : events[i] # "save") => master_file = pre.loaded
    /\ pre.op # "save" => master_file = pre.master

C16_Witness ==
    /\ events = <<"set", "set">>
    /\ state.lines # SplitLines(pre.loaded)
    /\ master_file = pre.loaded

\* line is the checklist line of requirement n: it holds `ID n` and the character
\* after that is not one more digit
IsLineOf(line, n) ==
    LET id == <<"ID", SP>> \o IntToStr(n)
    IN  \E p \in 1..Len(line) :
            /\ p + Len(id) - 1 <= Len(line)
            /\ SubSeq(line, p, p + Len(id) - 1) = id
            /\ p + Len(id) <= Len(line) => ~IsDigits(<<line[p + Len(id)]>>)

\* the first unchecked line of requirement n, 0 if there is none
FirstUnchecked(lines, n) ==
    LET hits == {i \in 1..Len(lines) : IsLineOf(lines[i], n) /\ Contains(lines[i], Unchecked)}
    IN  IF hits = {} THEN 0 ELSE CHOOSE i \in hits : \A j \in hits : i <= j

\* C17: once a command has done the checklist step of the cycle completion for the
\* active requirement N, the checklist differs from the one the command found in
\* exactly the first unchecked line of requirement N, now checked; with no such line
\* (or no checklist file) it is as the command found it, and the command goes on.
C17_ChecksOffActiveRequirement ==
    Position("checklist") # 0 =>
        IF pre.requirements = None THEN requirements_file = None
        ELSE LET before == SplitLines(pre.requirements)
                 i == FirstUnchecked(before, pre.pointer)
             IN  IF i = 0 THEN requirements_file = pre.requirements
                 ELSE SplitLines(requirements_file) =
                        [before EXCEPT ![i] = ReplaceFirst(before[i], Unchecked, Checked)]

\* C18: a completed command has run the cycle completion exactly when the stage it
\* approved is Deployer; and when it is not the first completion of the run, the
\* commands completed since the completion before it, this one included, are five
\* and approved Engineer, Researcher, Coder, Validator and Deployer, once each.
C18_OneCompletionPerCycle ==
    pc = "done" =>
        /\ Position("log") # 0 <=> pre.stage = Str("Deployer")
        /\ Position("log") # 0 <=> Position("set_pointer") # 0
        /\ (pre.stage = Str("Deployer") /\ pre.hist.completions > 0) =>
                Append(pre.hist.approved, pre.stage) = STAGES

C18_Witness ==
    /\ pc = "done"
    /\ pre.stage = Str("Deployer")
    /\ pre.hist.completions = 1
    /\ Len(pre.hist.approved) = 4
    /\ FilePointer = 3

\* C19: the step that runs the status command leaves the state document, the
\* approval log, the checklist and the recorded commit SHA as they are, and the
\* store of its manager holds the lines and the mapping read from the document.
C19_StatusIsReadOnly ==
    [][pc' = "reported" =>
        /\ files' = files
        /\ state' = WS_load(master_file)
        /\ current_stage' = WS_get(WS_load(master_file), K_CurrentStage)]_vars

C19_Witness ==
    /\ pc = "reported"
    /\ pre.stage = Str("Validator")
    /\ pre.pointer = 2
    /\ \E k \in DOMAIN state.data : k = K_LastCommitSHA

\* C20: a WorkflowManager in the Coder stage that was asked to generate the coder
\* deliverable has asked for the changes since the last commit once, has written the
\* one file deliverables/coding/coder_deliverable.md, and has not written the state
\* document.
C20_CoderDeliverableGenerated ==
    (pc # "idle" /\ "call" \in DOMAIN pre /\ pre.call = "_generate_coder_deliverable") =>
        /\ exit_reason = "none"
        /\ pre.queries = 1
        /\ pre.written = {Str("deliverables/coding/coder_deliverable.md")}
        /\ master_file = pre.master

LogEntries(n) ==
    {i \in 1..Len(LogLines) :
        StartsWith(LogLines[i], <<"Requirement", SP>> \o IntToStr(n) \o <<SP, "approved">>)}

\* the requirements the approval log records
LoggedIds == {n \in 1..(MaxPointer + MaxLog) : LogEntries(n) # {}}

\* the checklist lines that are checked off
CheckedLines ==
    IF requirements_file = None THEN {}
    ELSE {i \in 1..Len(SplitLines(requirements_file)) :
            Contains(SplitLines(requirements_file)[i], Checked)}

\* C22: at every moment of every run, with commands that fail or are interrupted
\* and run again, the approval log has at most one line for each requirement, and
\* no more checklist lines are checked off than requirements are in the log.
C22_RecordedAtMostOnce ==
    /\ \A n \in 1..(MaxPointer + MaxLog) : Cardinality(LogEntries(n)) <= 1
    /\ Cardinality(CheckedLines) <= Cardinality(LoggedIds)

\* the number of approve() calls the manager object has completed
Approvals == Cardinality({i \in 1..Len(events) : events[i] = "save"})

\* the stage n approvals after stage
RECURSIVE StageAfter(_, _)
StageAfter(stage, n) == IF n = 0 THEN stage ELSE StageAfter(Successor(stage), n - 1)

\* C23: when a manager object has completed an approve(), its current_stage is the
\* CurrentStage of its store; and the state document is as many stages on from the
\* stage the object was made in as the object has completed approvals.
C23_ManagerFollowsItsStore ==
    pc = "done" =>
        /\ current_stage = WS_get(state, K_CurrentStage)
        /\ FileStage = StageAfter(pre.stage, Approvals)

\* what the completed command left and did
Actual ==
    [master |-> master_file, approval |-> approval_file,
     requirements |-> requirements_file, last_commit |-> last_commit_file,
     steps |-> events]

\* the engine that did not run the command
OtherEngine == IF engine = "StateManager" THEN "WorkflowManager" ELSE "StateManager"

\* approve() as a whole is what the steps of the running engine add up to
OutcomeIsActual == pc = "done" => Actual = Outcome(engine, pre)

\* C24: when a StateManager command has completed on answers that the validation
\* of WorkflowManager admits as well, WorkflowManager.approve started from the same
\* files leaves the same state document, approval log and checklist, the same
\* recorded commit SHA, and takes the same steps in the same order.
C24_EnginesAgree ==
    (/\ pc = "done"
     /\ engine = "StateManager"
     /\ WM_validate_stage(pre.stage, pre.head, env) = "ok") =>
        Outcome(OtherEngine, pre) = Actual

====
